---- MODULE Spec2Model ----
(***************************************************************************)
(* Vero Media single-page site: the three page variants of the repository  *)
(*   "lens"  src/src/app.jsx lines 1-504    (VeroLens eased by section)    *)
(*   "morph" src/src/app.jsx lines 506-1030 (MorphingShape)                *)
(*   "vero"  src/vero.jsx                   (VeroLens following the mouse) *)
(* The state is the React state of App (activeSection, mouse), the state   *)
(* of ErrorBoundary, the objects the frame callbacks write (currentConfig, *)
(* the mesh, the material) and the page geometry that produces the         *)
(* viewport-enter notifications.                                           *)
(*                                                                         *)
(* Numbers.  A JavaScript number is modelled in fixed point: an integer n  *)
(* stands for n / Unit, and every assignment rounds to the nearest unit.   *)
(* Times are integers in milliseconds, lengths on the page in pixels.      *)
(***************************************************************************)
EXTENDS Integers, Sequences, FiniteSets, TLC

\* Resolution of the fixed-point numbers: units per 1.0.
Unit == 1000

\* n / d rounded to the nearest integer (halves away from zero), d > 0.
Round(n, d) ==
  IF n >= 0 THEN (2 * n + d) \div (2 * d) ELSE -((2 * (-n) + d) \div (2 * d))

\* The literal n/d in units.
Real(n, d) == Round(n * Unit, d)

Abs(n) == IF n < 0 THEN -n ELSE n

Min(a, b) == IF a < b THEN a ELSE b

Max(a, b) == IF a < b THEN b ELSE a

----------------------------------------------------------------------------
(* Configuration tables *)

Variants == {"lens", "morph", "vero"}

\* The keys of SECTION_CONFIGS.
Sections == {"hero", "work", "agency", "contact"}

\* The eased numeric fields of the lens variant's configuration records.
NumFields == {"distortion", "chromaticAberration", "roughness", "scale", "speed"}

\* app.jsx 18-51.
SECTION_CONFIGS_LENS ==
  [ hero    |-> [ color |-> "#ffffff", distortion |-> Real(4, 10),
                  chromaticAberration |-> Real(1, 10), roughness |-> Real(5, 100),
                  scale |-> Real(35, 10), speed |-> Real(1, 1) ],
    work    |-> [ color |-> "#ffffff", distortion |-> Real(0, 1),
                  chromaticAberration |-> Real(15, 10), roughness |-> Real(0, 1),
                  scale |-> Real(45, 10), speed |-> Real(2, 10) ],
    agency  |-> [ color |-> "#C67C4E", distortion |-> Real(15, 10),
                  chromaticAberration |-> Real(2, 10), roughness |-> Real(2, 10),
                  scale |-> Real(3, 1), speed |-> Real(3, 1) ],
    contact |-> [ color |-> "#C67C4E", distortion |-> Real(2, 10),
                  chromaticAberration |-> Real(5, 10), roughness |-> Real(1, 10),
                  scale |-> Real(2, 1), speed |-> Real(5, 10) ] ]

\* app.jsx 526-547.
SECTION_CONFIGS_MORPH ==
  [ hero    |-> [ shape |-> "knot", color |-> "#ffffff",
                  config |-> [ roughness |-> Real(5, 100), ior |-> Real(15, 10),
                               chromaticAberration |-> Real(1, 10) ] ],
    work    |-> [ shape |-> "prism", color |-> "#ffffff",
                  config |-> [ roughness |-> Real(0, 1), ior |-> Real(2, 1),
                               chromaticAberration |-> Real(15, 10) ] ],
    agency  |-> [ shape |-> "capsule", color |-> "#C67C4E",
                  config |-> [ roughness |-> Real(2, 10), ior |-> Real(12, 10),
                               chromaticAberration |-> Real(2, 10) ] ],
    contact |-> [ shape |-> "orb", color |-> "#C67C4E",
                  config |-> [ roughness |-> Real(1, 10), ior |-> Real(15, 10),
                               chromaticAberration |-> Real(5, 10) ] ] ]

\* A currentConfig that would refer to the hero record itself, as
\* useRef(SECTION_CONFIGS.hero) would make it.
AliasedConfigRef == "hero"

\* The object currentConfig.current refers to: useRef({ ...SECTION_CONFIGS.hero })
\* spreads the hero record into a fresh object (app.jsx 147).
CurrentConfigRef == "current"

\* The objects of a variant's module scope, by reference: the records of
\* SECTION_CONFIGS under their keys, and in the lens variant the object behind
\* currentConfig, which starts as a copy of the hero record.
InitialHeap(v) ==
  CASE v = "lens"  -> [ o \in Sections \cup {"current"} |->
                          IF o \in Sections THEN SECTION_CONFIGS_LENS[o]
                                            ELSE SECTION_CONFIGS_LENS["hero"] ]
    [] v = "morph" -> [ o \in Sections |-> SECTION_CONFIGS_MORPH[o] ]
    [] OTHER       -> [ o \in {} |-> 0 ]

----------------------------------------------------------------------------
(* State *)

VARIABLES
  variant,        \* which of the three pages is loaded
  mounted,        \* the React root is mounted (the page has not been torn down)
  activeSection,  \* App: useState('hero')
  mouse,          \* App / useMousePosition: useState({ x: 0, y: 0 })
  win,            \* window.innerWidth, window.innerHeight
  heap,           \* SECTION_CONFIGS' records and the object behind currentConfig
  refs,           \* whether mesh.current / materialRef.current / group.current are attached
  mesh,           \* lens, vero: mesh.current.rotation.x, .y and its uniform scale
  material,       \* lens: the fields of materialRef.current the frame callback writes
  morph,          \* morph: group.current and the four primitives
  boundary,       \* ErrorBoundary: this.state
  output,         \* what the last render of ErrorBoundary produced
  uncaught,       \* an error has left the program without reaching an error boundary
  scrollY,        \* the scroll position of the page, in pixels
  inView,         \* per region: its observed element is visible to its threshold
  pending,        \* viewport-enter notifications queued by the host, oldest first
  frames,         \* number of frame callbacks run so far
  lastEntered,    \* the region whose viewport-enter notification was delivered last
  lastCrossed,    \* the region whose element rose to its threshold last
  listeners,      \* per window listener: whether it is registered, and how often removed
  cursor          \* Cursor: useState({ x: 0, y: 0 }) and useState(false)

appVars   == << activeSection, mouse >>
sceneVars == << heap, refs, mesh, material, morph >>
errVars   == << boundary, output, uncaught >>
pageVars  == << scrollY, inView, pending, lastCrossed >>
domVars   == << listeners, cursor >>

vars == << variant, mounted, activeSection, mouse, win, heap, refs, mesh, material,
           morph, boundary, output, uncaught, scrollY, inView, pending, frames,
           lastEntered, lastCrossed, listeners, cursor >>

----------------------------------------------------------------------------
(* Inputs of the host *)

\* Window sizes in pixels: a phone in portrait and a desktop window.
WindowSizes == { [innerWidth |-> 400, innerHeight |-> 800],
                 [innerWidth |-> 1000, innerHeight |-> 500] }

\* The mousemove events the host can report in a window w: positions inside the
\* viewport and, while a button is held during a drag that leaves the window,
\* positions outside it (clientX < 0 or >= innerWidth, likewise clientY).
PointerEvents(w) ==
  { [clientX |-> w.innerWidth \div 2, clientY |-> w.innerHeight \div 2],
    [clientX |-> 0, clientY |-> 0],
    [clientX |-> w.innerWidth - 1, clientY |-> w.innerHeight - 1],
    [clientX |-> w.innerWidth + (w.innerWidth \div 2), clientY |-> w.innerHeight \div 2],
    [clientX |-> w.innerWidth \div 4, clientY |-> -(w.innerHeight \div 4)] }

\* The mousemove event used where the pointer is not the subject.
FewPointerEvents(w) ==
  { [clientX |-> w.innerWidth \div 4, clientY |-> -(w.innerHeight \div 4)] }

\* Frame times the render loop can pass to a frame callback, in milliseconds:
\* a 60 Hz frame, slow frames, and the long frame after the tab was in the
\* background (the loop's clock is not clamped).
Deltas == {16, 500, 800}

\* The frame time used where the scene is not the subject: a slow frame.
FewDeltas == {500}

\* Bound on the number of frame callbacks explored by SceneSpec.
MaxFrames == 2

\* Bound on the number of frame callbacks explored by Spec.
FewFrames == 1

----------------------------------------------------------------------------
(* App: pointer tracking and the active section *)

\* updateMouse (app.jsx 382-387 and 909-914, vero.jsx 47-52): the value passed
\* to setMouse for event e in window w.
updateMouse(e, w) ==
  [ x |-> Round(e.clientX * 2 * Unit, w.innerWidth) - Unit,
    y |-> -Round(e.clientY * 2 * Unit, w.innerHeight) + Unit ]

\* The labeled regions of a page that report viewport entry: the hero block and
\* the three Sections (app.jsx 412-498 and 939-1025).  vero.jsx reports none.
Regions == {"hero", "work", "agency", "contact"}

\* Props of a Section whose id is not a key of SECTION_CONFIGS.
PropsWithUnconfiguredId(r) == [ id |-> "systems", onInView |-> TRUE ]

\* Props of a Section that was given no onInView callback.
PropsWithoutOnInView(r) == [ id |-> r, onInView |-> FALSE ]

\* The props App gives each Section (app.jsx 445-449, 470-475, 484-488).
SectionProps(r) == [ id |-> r, onInView |-> TRUE ]

\* An onViewportEnter that would drop its notification.
IgnoredEnter(r, a) == a

\* The value activeSection takes when region r's onViewportEnter runs with the
\* current value a: the hero block calls setActiveSection('hero') (app.jsx 416),
\* a Section calls onInView && onInView(id) (app.jsx 348).
OnViewportEnter(r, a) ==
  IF r = "hero" THEN "hero"
  ELSE IF SectionProps(r).onInView THEN SectionProps(r).id ELSE a

----------------------------------------------------------------------------
(* Window listeners: the pointer tracker and Cursor *)

\* The listeners the effects register on window: updateMouse by App or
\* useMousePosition (app.jsx 388, 915, vero.jsx 53), mouseMove and
\* handleMouseOver by Cursor (app.jsx 279-280, 806-807, vero.jsx 174-175).
AppListeners == {"updateMouse"}

CursorListeners == {"mouseMove", "handleMouseOver"}

\* After the effects of the mount: every listener is registered.
InitialListeners ==
  [ l \in AppListeners \cup CursorListeners |-> [ on |-> TRUE, removed |-> 0 ] ]

\* The table after removeEventListener was called for the given listeners.
RemoveListeners(ls, names) ==
  [ l \in DOMAIN ls |->
      IF l \in names THEN [ on |-> FALSE, removed |-> ls[l].removed + 1 ] ELSE ls[l] ]

\* A cleanup that would remove nothing.
KeptListeners(ls) == ls

\* The cleanup of App's (useMousePosition's) effect (app.jsx 389, 916,
\* vero.jsx 54).
AppCleanup(ls) == RemoveListeners(ls, AppListeners)

\* The cleanup of Cursor's effect (app.jsx 281-284, 808-811, vero.jsx 176-179).
CursorCleanup(ls) == RemoveListeners(ls, CursorListeners)

\* Cursor before any event (app.jsx 267-268).
InitialCursor == [ x |-> 0, y |-> 0, isHovered |-> FALSE ]

\* Cursor's mouseMove (app.jsx 271).
mouseMove(c, e) == [ c EXCEPT !.x = e.clientX, !.y = e.clientY ]

\* What a mouseover event can hit: a link, a button, an element inside a
\* button, anything else.
Targets == {"A", "BUTTON", "insideButton", "other"}

\* Cursor's handleMouseOver (app.jsx 272-278).
handleMouseOver(c, target) ==
  [ c EXCEPT !.isHovered = target \in {"A", "BUTTON", "insideButton"} ]

----------------------------------------------------------------------------
(* ErrorBoundary *)

\* The kinds of value a throw statement can deliver.  "bareObject" is an object
\* with no callable toString (Object.create(null), or { toString: null }).
ErrorValues == {"null", "undefined", "zero", "Error", "string", "bareObject"}

\* JavaScript truthiness of an error value.
Truthy(v) == v \notin {"null", "undefined", "zero"}

\* Whether v.toString() can be called.
HasToString(v) == v \notin {"null", "undefined", "bareObject"}

\* constructor (app.jsx 120-123, 612-615, vero.jsx 18-21).
InitialBoundary == [ hasError |-> FALSE, error |-> "null" ]

\* static getDerivedStateFromError (app.jsx 124, 616, vero.jsx 22-24).
getDerivedStateFromError(error) == [ hasError |-> TRUE, error |-> error ]

\* render (app.jsx 125-135, 617-627, vero.jsx 28-38).  The <pre> holds
\* this.state.error && this.state.error.toString(); evaluating it throws when
\* the error is truthy and has no callable toString.
render(state) ==
  IF state.hasError
  THEN IF Truthy(state.error) /\ ~HasToString(state.error)
       THEN [ kind |-> "throws" ]
       ELSE [ kind |-> "fallback",
              pre  |-> IF Truthy(state.error) THEN "text"
                       ELSE IF state.error = "zero" THEN "0" ELSE "" ]
  ELSE [ kind |-> "children" ]

\* What the page shows after ErrorBoundary rendered with this state: an error
\* thrown by the boundary's own render has no boundary above it, so React
\* unmounts the root and the page is blank.
Shown(state) ==
  IF render(state).kind = "throws" THEN [ kind |-> "blank" ] ELSE render(state)

\* Where an error can be raised below App.
ErrorPlaces == {"construct", "render", "frame", "handler"}

\* A boundary that would be handed the errors of every place.
DeliveredAnywhere(place) == TRUE

\* React delivers to getDerivedStateFromError the errors thrown while the tree
\* under the boundary is constructed or rendered; an error thrown inside a frame
\* callback (run by the render loop) or inside an event handler is not.
Delivered(place) == place \in {"construct", "render"}

----------------------------------------------------------------------------
(* The 3D scene: numeric helpers *)

\* A lerp that would add the weighted end point to the whole start point.
UnweightedStartLerp(x, y, tn, td) == Round(td * x + tn * y, td)

\* THREE.MathUtils.lerp(x, y, t) = (1 - t) * x + t * y, for t = tn / td.
lerp(x, y, tn, td) == Round((td - tn) * x + tn * y, td)

\* THREE.Vector3.lerp on one component: x += (v - x) * alpha, alpha = an / ad.
Vector3Lerp(x, v, an, ad) == x + Round((v - x) * an, ad)

\* Denominator of the blend factors below: a frame time is in milliseconds and
\* the rate constants have one decimal.
FactorDen == 10000

\* A blend factor of twice the rate: 5 * delta.
DoubledFactor(delta) == 50 * delta

\* const lerpFactor = 2.5 * delta (app.jsx 156), as a numerator over FactorDen.
lerpFactor(delta) == 25 * delta

\* viewport.width of useThree, in world units: the camera of Canvas is at
\* distance 15 with fov 45 (app.jsx 222, 749, vero.jsx 112), so the visible
\* height is 2 * 15 * tan(22.5 deg) = 12.426 and the width that times the
\* aspect ratio of the full-window canvas.
ViewportWidth(w) == Round(12426 * Round(w.innerWidth * Unit, w.innerHeight), 1000)

\* viewport.width < 7 ? 0.6 : 1 (app.jsx 172, 685), in tenths.
viewportRatio(w) == IF ViewportWidth(w) < Real(7, 1) THEN 6 ELSE 10

----------------------------------------------------------------------------
(* lens: VeroLens.useFrame (app.jsx 149-182) *)

\* A frame callback that would keep the target of the section active at mount.
MountTarget(h, a) == h["hero"]

\* SECTION_CONFIGS[activeSection] || SECTION_CONFIGS.hero (app.jsx 153).
LensTarget(h, a) == IF a \in Sections THEN h[a] ELSE h["hero"]

\* A frame callback that would set the vector directly to the target.
SnappedConfig(cc, target, delta) ==
  [ color |-> target.color, distortion |-> target.distortion,
    chromaticAberration |-> target.chromaticAberration,
    roughness |-> target.roughness, scale |-> target.scale, speed |-> target.speed ]

\* A frame callback that would ease the numbers and leave the color as it was.
KeptColorConfig(cc, target, delta) ==
  [ color               |-> cc.color,
    distortion          |-> lerp(cc.distortion, target.distortion,
                                 lerpFactor(delta), FactorDen),
    chromaticAberration |-> lerp(cc.chromaticAberration, target.chromaticAberration,
                                 lerpFactor(delta), FactorDen),
    roughness           |-> lerp(cc.roughness, target.roughness,
                                 lerpFactor(delta), FactorDen),
    scale               |-> lerp(cc.scale, target.scale,
                                 lerpFactor(delta), FactorDen),
    speed               |-> lerp(cc.speed, target.speed,
                                 lerpFactor(delta), FactorDen) ]

\* A frame callback that would ease four of the numbers and skip speed.
SpeedSkippedConfig(cc, target, delta) ==
  [ color               |-> target.color,
    distortion          |-> lerp(cc.distortion, target.distortion,
                                 lerpFactor(delta), FactorDen),
    chromaticAberration |-> lerp(cc.chromaticAberration, target.chromaticAberration,
                                 lerpFactor(delta), FactorDen),
    roughness           |-> lerp(cc.roughness, target.roughness,
                                 lerpFactor(delta), FactorDen),
    scale               |-> lerp(cc.scale, target.scale,
                                 lerpFactor(delta), FactorDen),
    speed               |-> cc.speed ]

\* app.jsx 158-163: the color is assigned, the five numbers are eased.
EasedConfig(cc, target, delta) ==
  [ color               |-> target.color,
    distortion          |-> lerp(cc.distortion, target.distortion,
                                 lerpFactor(delta), FactorDen),
    chromaticAberration |-> lerp(cc.chromaticAberration, target.chromaticAberration,
                                 lerpFactor(delta), FactorDen),
    roughness           |-> lerp(cc.roughness, target.roughness,
                                 lerpFactor(delta), FactorDen),
    scale               |-> lerp(cc.scale, target.scale,
                                 lerpFactor(delta), FactorDen),
    speed               |-> lerp(cc.speed, target.speed,
                                 lerpFactor(delta), FactorDen) ]

\* A frame callback that would apply the vector without its roughness.
AppliedWithoutRoughness(cc) ==
  [ distortion          |-> cc.distortion,
    chromaticAberration |-> cc.chromaticAberration,
    color               |-> cc.color ]

\* app.jsx 166-169.
AppliedMaterial(cc) ==
  [ distortion          |-> cc.distortion,
    chromaticAberration |-> cc.chromaticAberration,
    roughness           |-> cc.roughness,
    color               |-> cc.color ]

\* One rotation axis (app.jsx 176-177, then 180-181): advance by
\* delta * rate * speed with rate = rateTenths / 10, then move one tenth of the
\* way toward pointer * 0.5.
LensAxis(angle, rateTenths, speed, pointer, delta) ==
  LET advanced == angle + Round(delta * rateTenths * speed, 10000)
  IN  advanced + Round(pointer * 5 - advanced * 10, 100)

\* A frame whose second rotation axis would use the pointer reading of the
\* mount instead of the one its first axis used.
TornMesh(m, cc, ms, w, delta) ==
  [ scale |-> Round(cc.scale * viewportRatio(w), 10),
    rx    |-> LensAxis(m.rx, 2, cc.speed, ms.y, delta),
    ry    |-> LensAxis(m.ry, 3, cc.speed, 0, delta) ]

\* A frame whose rotation axes would each follow the other pointer coordinate.
SwappedPointerMesh(m, cc, ms, w, delta) ==
  [ scale |-> Round(cc.scale * viewportRatio(w), 10),
    rx    |-> LensAxis(m.rx, 2, cc.speed, ms.x, delta),
    ry    |-> LensAxis(m.ry, 3, cc.speed, ms.y, delta) ]

\* app.jsx 172-181: the mesh after a frame, given the eased configuration.
LensMesh(m, cc, ms, w, delta) ==
  [ scale |-> Round(cc.scale * viewportRatio(w), 10),
    rx    |-> LensAxis(m.rx, 2, cc.speed, ms.y, delta),
    ry    |-> LensAxis(m.ry, 3, cc.speed, ms.x, delta) ]

\* The material before the first frame: ior is the prop ior={1.5}
\* (app.jsx 196); the fields the frame callback writes are not given as props
\* (app.jsx 188-199), so they hold the defaults of MeshTransmissionMaterial.
InitialMaterial ==
  [ distortion |-> 0, chromaticAberration |-> Real(3, 100), roughness |-> 0,
    color |-> "white", ior |-> Real(15, 10) ]

\* The material after the assignments of app.jsx 166-169: the assigned fields
\* take their new values, every other field keeps its own.
Assigned(mat, fields) ==
  [ f \in DOMAIN mat |-> IF f \in DOMAIN fields THEN fields[f] ELSE mat[f] ]

----------------------------------------------------------------------------
(* vero: VeroLens (vero.jsx 62-93) *)

\* scale={viewport.width < 7 ? 2 : 3.5} (vero.jsx 75).
VeroScale(w) == IF ViewportWidth(w) < Real(7, 1) THEN Real(2, 1) ELSE Real(35, 10)

\* A frame that would lerp each axis toward the whole pointer coordinate.
VeroMeshFullPointer(m, ms) ==
  [ scale |-> m.scale,
    rx    |-> lerp(m.rx, ms.y, 1, 10),
    ry    |-> lerp(m.ry, ms.x, 1, 10) ]

\* vero.jsx 68-69: each axis is lerped one tenth toward pointer * 0.5.
VeroMesh(m, ms) ==
  [ scale |-> m.scale,
    rx    |-> lerp(m.rx, Round(ms.y, 2), 1, 10),
    ry    |-> lerp(m.ry, Round(ms.x, 2), 1, 10) ]

----------------------------------------------------------------------------
(* morph: MorphingShape.useFrame (app.jsx 660-691) *)

Shapes == {"knot", "prism", "capsule", "orb"}

\* The natural size of each primitive, in tenths (app.jsx 687-690).
NaturalSize(shape) ==
  CASE shape = "knot"    -> 30
    [] shape = "prism"   -> 35
    [] shape = "capsule" -> 25
    [] shape = "orb"     -> 25

\* SECTION_CONFIGS[activeSection]?.shape || 'knot' (app.jsx 684).
currentShape(h, a) == IF a \in Sections THEN h[a].shape ELSE "knot"

\* A frame that would give every primitive its natural size as target.
EveryShapeTarget(shape, h, a, w) ==
  Round(NaturalSize(shape) * Unit * viewportRatio(w), 100)

\* The targetScale passed to animateScale for a primitive (app.jsx 685-690).
TargetScale(shape, h, a, w) ==
  IF currentShape(h, a) = shape
  THEN Round(NaturalSize(shape) * Unit * viewportRatio(w), 100)
  ELSE 0

\* An animateScale that would lerp with alpha = delta * 8.
animateScaleTwiceAsFast(p, targetScale, delta) ==
  [ scale |-> Vector3Lerp(p.scale, targetScale, 8 * delta, 1000),
    rx    |-> IF targetScale > Real(1, 10) THEN p.rx + Round(delta * 2 * Unit, 10000)
              ELSE p.rx,
    ry    |-> IF targetScale > Real(1, 10) THEN p.ry + Round(delta * 2 * Unit, 10000)
              ELSE p.ry ]

\* animateScale (app.jsx 672-681): the scale is lerped toward targetScale with
\* alpha = delta * 4, and an active primitive turns by delta * 0.2 on both axes.
animateScale(p, targetScale, delta) ==
  [ scale |-> Vector3Lerp(p.scale, targetScale, 4 * delta, 1000),
    rx    |-> IF targetScale > Real(1, 10) THEN p.rx + Round(delta * 2 * Unit, 10000)
              ELSE p.rx,
    ry    |-> IF targetScale > Real(1, 10) THEN p.ry + Round(delta * 2 * Unit, 10000)
              ELSE p.ry ]

\* app.jsx 664-669: the group turns at a fixed rate and its position is lerped
\* 0.05 toward the pointer, biased 3 to the right on x.
MorphGroup(g, ms, delta) ==
  [ rx |-> g.rx + Round(delta * 10 * Unit, 100000),
    ry |-> g.ry + Round(delta * 15 * Unit, 100000),
    px |-> lerp(g.px, Round(ms.x, 2) + Real(3, 1), 5, 100),
    py |-> lerp(g.py, Round(ms.y, 2), 5, 100) ]

\* The whole frame of the morphing variant.
MorphFrame(m, h, a, ms, w, delta) ==
  [ group  |-> MorphGroup(m.group, ms, delta),
    shapes |-> [ s \in Shapes |->
                   animateScale(m.shapes[s], TargetScale(s, h, a, w), delta) ] ]

\* <group position={[3, 0, 0]}> with four meshes at the default scale 1
\* (app.jsx 694-726).
InitialMorph ==
  [ group  |-> [ rx |-> 0, ry |-> 0, px |-> Real(3, 1), py |-> 0 ],
    shapes |-> [ s \in Shapes |-> [ scale |-> Real(1, 1), rx |-> 0, ry |-> 0 ] ] ]

----------------------------------------------------------------------------
(* Page geometry and the viewport observers *)

\* The regions in document order; the observers report in this order.
RegionOrder == << "hero", "work", "agency", "contact" >>

\* padding: '6rem' of a Section (app.jsx 346), in pixels.
Padding == 96

\* Height of a Section's content block in window w: it fits in a desktop window
\* and overflows the viewport of a phone, where the text wraps.
ContentHeight(w) == IF w.innerWidth < 768 THEN 700 ELSE 300

\* The hero block has height 100vh (app.jsx 413); a Section has minHeight 100vh
\* and grows with its content (app.jsx 346).
SectionHeight(r, w) ==
  IF r = "hero" THEN w.innerHeight
  ELSE Max(w.innerHeight, ContentHeight(w) + 2 * Padding)

RECURSIVE TopOfIndex(_, _)
TopOfIndex(i, w) ==
  IF i = 1 THEN 0 ELSE TopOfIndex(i - 1, w) + SectionHeight(RegionOrder[i - 1], w)

IndexOf(r) == CHOOSE i \in 1..Len(RegionOrder) : RegionOrder[i] = r

SectionTop(r, w) == TopOfIndex(IndexOf(r), w)

PageHeight(w) == TopOfIndex(Len(RegionOrder) + 1, w)

MaxScroll(w) == PageHeight(w) - w.innerHeight

\* The element a region observes: the hero's motion.div fills its section
\* (app.jsx 415-418); a Section's motion.div wraps the content, which the
\* section centres vertically (app.jsx 346-350).
Element(r, w) ==
  IF r = "hero" THEN [ top |-> 0, height |-> w.innerHeight ]
  ELSE [ top    |-> SectionTop(r, w) + (SectionHeight(r, w) - ContentHeight(w)) \div 2,
         height |-> ContentHeight(w) ]

\* Pixels of [top, top + height) inside the viewport at scroll position y.
Overlap(top, height, y, w) ==
  Max(0, Min(top + height, y + w.innerHeight) - Max(top, y))

\* viewport={{ amount: 0.6 }} for the hero (app.jsx 417), 0.5 for a Section
\* (app.jsx 349), in tenths.
Threshold(r) == IF r = "hero" THEN 6 ELSE 5

\* Region r's element is visible to its threshold at scroll position y.
InViewAt(r, y, w) ==
  Overlap(Element(r, w).top, Element(r, w).height, y, w) * 10
    >= Threshold(r) * Element(r, w).height

\* The regions whose element rises to its threshold when the geometry becomes
\* (y, w), in document order: each gets one onViewportEnter.
RECURSIVE EnteredFrom(_, _, _, _)
EnteredFrom(i, seen, y, w) ==
  IF i > Len(RegionOrder) THEN << >>
  ELSE LET r == RegionOrder[i]
       IN  (IF InViewAt(r, y, w) /\ ~seen[r] THEN << r >> ELSE << >>)
             \o EnteredFrom(i + 1, seen, y, w)

Entered(seen, y, w) == EnteredFrom(1, seen, y, w)

\* Scroll positions the host can report in window w: every half viewport height
\* down the page, the end of the page, and 9/20 of the viewport height, which
\* lies between the position where the hero's element falls below 0.6 and the
\* position where the first Section's element rises to 0.5.
ScrollStops(w) ==
  { k * (w.innerHeight \div 2) : k \in 0..(MaxScroll(w) \div (w.innerHeight \div 2)) }
    \cup { (9 * w.innerHeight) \div 20, MaxScroll(w) }

\* The scroll positions used where the page is not the subject: the top, the
\* position inside the band, and the first Section in full view.
FewScrollStops(w) == { 0, (9 * w.innerHeight) \div 20, SectionTop("work", w) }

\* The scroll positions used where the scene is the subject: the top, the first
\* Section in full view and the second Section in full view, whose
\* configuration has another color.
SceneScrollStops(w) == { 0, SectionTop("work", w), SectionTop("agency", w) }

\* The names of the navigation items, each as its sequence of characters:
\* ['Work', 'Agency', 'Contact'] (app.jsx 323, 850) and
\* ['Work', 'Agency', 'Systems', 'Contact'] (vero.jsx 218).
NavItems(v) ==
  { << "W", "o", "r", "k" >>, << "A", "g", "e", "n", "c", "y" >>,
    << "C", "o", "n", "t", "a", "c", "t" >> }
    \cup (IF v = "vero" THEN { << "S", "y", "s", "t", "e", "m", "s" >> } ELSE {})

\* String.prototype.toLowerCase on one character of the item names.
LowerCase(c) ==
  CASE c = "W" -> "w"
    [] c = "A" -> "a"
    [] c = "S" -> "s"
    [] c = "C" -> "c"
    [] OTHER   -> c

\* item.toLowerCase() (app.jsx 325, 852, vero.jsx 220).
toLowerCase(item) == [ i \in 1..Len(item) |-> LowerCase(item[i]) ]

\* The id attribute of each region's section element, as its sequence of
\* characters: the Sections get id="work", "agency", "contact" (app.jsx 446,
\* 471, 485, 973, 998, 1012, vero.jsx 312, 332, 340); the hero's section has
\* no id (app.jsx 412, vero.jsx 288).
SectionIds(v) ==
  [ work    |-> << "w", "o", "r", "k" >>,
    agency  |-> << "a", "g", "e", "n", "c", "y" >>,
    contact |-> << "c", "o", "n", "t", "a", "c", "t" >> ]

\* The region whose section element the href of a navigation item names
\* (href={`#${item.toLowerCase()}`}), "none" if no element has that id.
AnchorTarget(v, item) ==
  IF \E r \in DOMAIN SectionIds(v) : SectionIds(v)[r] = toLowerCase(item)
  THEN CHOOSE r \in DOMAIN SectionIds(v) : SectionIds(v)[r] = toLowerCase(item)
  ELSE "none"

\* Pixels of region r's section inside the viewport at scroll position y.
Occupies(r, y, w) == Overlap(SectionTop(r, w), SectionHeight(r, w), y, w)

----------------------------------------------------------------------------
(* Initial state: the page has just been loaded at the top, in some window *)

\* The regions that have a viewport observer with a callback: none in vero.jsx,
\* whose Section takes no onInView (vero.jsx 238-260).
Observed(v) == IF v = "vero" THEN {} ELSE Regions

NoneInView == [ r \in Regions |-> FALSE ]

\* What the observers see at (y, w), given what they saw before.
Seen(v, y, w) == [ r \in Regions |-> r \in Observed(v) /\ InViewAt(r, y, w) ]

\* The notifications that geometry (y, w) adds, given what was seen before.
Notified(v, seen, y, w) == IF v = "vero" THEN << >> ELSE Entered(seen, y, w)

Last(q, default) == IF q = << >> THEN default ELSE q[Len(q)]

Init ==
  /\ variant \in Variants
  /\ mounted = TRUE
  /\ activeSection = (IF variant = "vero" THEN "none" ELSE "hero")
  /\ mouse = [ x |-> 0, y |-> 0 ]
  /\ win \in WindowSizes
  /\ heap = InitialHeap(variant)
  /\ refs = [ mesh |-> FALSE, material |-> FALSE, group |-> FALSE ]
  /\ mesh = [ scale |-> IF variant = "vero" THEN VeroScale(win) ELSE Real(1, 1),
              rx |-> 0, ry |-> 0 ]
  /\ material = InitialMaterial
  /\ morph = InitialMorph
  /\ boundary = InitialBoundary
  /\ output = Shown(InitialBoundary)
  /\ uncaught = FALSE
  /\ scrollY = 0
  /\ inView = Seen(variant, 0, win)
  /\ pending = Notified(variant, NoneInView, 0, win)
  /\ frames = 0
  /\ lastEntered = "none"
  /\ lastCrossed = Last(pending, "none")
  /\ listeners = InitialListeners
  /\ cursor = InitialCursor

\* The tree under ErrorBoundary (Cursor, Navigation, Scene, the regions) is
\* mounted.
ChildrenMounted == mounted /\ ~boundary.hasError

----------------------------------------------------------------------------
(* Events of the host *)

\* The host delivers a mousemove event to the listeners registered on window:
\* updateMouse (app.jsx 381-390, 908-917, vero.jsx 46-55) and Cursor's
\* mouseMove (app.jsx 271); the new state re-renders what is mounted.
MouseMove(e) ==
  /\ mouse' = IF listeners["updateMouse"].on THEN updateMouse(e, win) ELSE mouse
  /\ cursor' = IF listeners["mouseMove"].on THEN mouseMove(cursor, e) ELSE cursor
  /\ output' = IF mounted THEN Shown(boundary) ELSE output
  /\ UNCHANGED << variant, mounted, activeSection, win, sceneVars, boundary, uncaught,
                  pageVars, frames, lastEntered, listeners >>

\* The host delivers a mouseover event to Cursor's handleMouseOver
\* (app.jsx 272-278) if it is registered.
MouseOver(target) ==
  /\ cursor' = IF listeners["handleMouseOver"].on THEN handleMouseOver(cursor, target)
               ELSE cursor
  /\ UNCHANGED << variant, mounted, appVars, win, sceneVars, errVars, pageVars, frames,
                  lastEntered, listeners >>

\* The page unmounts: the cleanups of the effects of what is still mounted run,
\* the refs detach, the observers disconnect, and nothing is shown.
Unmount ==
  /\ mounted
  /\ mounted' = FALSE
  /\ listeners' = AppCleanup(IF ChildrenMounted THEN CursorCleanup(listeners)
                             ELSE listeners)
  /\ refs' = [ mesh |-> FALSE, material |-> FALSE, group |-> FALSE ]
  /\ pending' = << >>
  /\ output' = [ kind |-> "blank" ]
  /\ UNCHANGED << variant, appVars, win, heap, mesh, material, morph, boundary, uncaught,
                  scrollY, inView, lastCrossed, frames, lastEntered, cursor >>

\* The observers look at the page after its geometry became (y, w).
Observe(y, w) ==
  IF ChildrenMounted
  THEN /\ inView' = Seen(variant, y, w)
       /\ pending' = pending \o Notified(variant, inView, y, w)
       /\ lastCrossed' = Last(Notified(variant, inView, y, w), lastCrossed)
  ELSE UNCHANGED << inView, pending, lastCrossed >>

\* The user scrolls to position y.  The host has delivered the notifications of
\* the previous observation before it observes again.
Scroll(y) ==
  /\ mounted
  /\ pending = << >>
  /\ y # scrollY
  /\ scrollY' = y
  /\ Observe(y, win)
  /\ UNCHANGED << variant, mounted, appVars, win, sceneVars, errVars, frames,
                  lastEntered, domVars >>

\* The window is resized to w: the page is laid out again, the scroll position
\* is kept as far as the new page allows, and in vero.jsx VeroLens renders its
\* mesh with the scale of the new viewport (vero.jsx 75).
Resize(w) ==
  /\ mounted
  /\ pending = << >>
  /\ w # win
  /\ win' = w
  /\ scrollY' = Min(scrollY, MaxScroll(w))
  /\ Observe(Min(scrollY, MaxScroll(w)), w)
  /\ mesh' = IF variant = "vero" /\ ChildrenMounted /\ refs.mesh
             THEN [ mesh EXCEPT !.scale = VeroScale(w) ] ELSE mesh
  /\ UNCHANGED << variant, mounted, appVars, heap, refs, material, morph, errVars,
                  frames, lastEntered, domVars >>

\* A notification whose re-render would start the lens's vector over from the
\* hero record.
ResettingEnter ==
  /\ ChildrenMounted
  /\ pending # << >>
  /\ activeSection' = OnViewportEnter(Head(pending), activeSection)
  /\ pending' = Tail(pending)
  /\ lastEntered' = Head(pending)
  /\ output' = Shown(boundary)
  /\ heap' = IF variant = "lens"
             THEN [ heap EXCEPT ![CurrentConfigRef] = heap["hero"] ] ELSE heap
  /\ UNCHANGED << variant, mounted, mouse, win, refs, mesh, material, morph, boundary,
                  uncaught, scrollY, inView, frames, lastCrossed, domVars >>

\* The oldest queued notification runs its onViewportEnter (app.jsx 348, 416,
\* 875, 943); the new state re-renders App.
ViewportEnter ==
  /\ ChildrenMounted
  /\ pending # << >>
  /\ activeSection' = OnViewportEnter(Head(pending), activeSection)
  /\ pending' = Tail(pending)
  /\ lastEntered' = Head(pending)
  /\ output' = Shown(boundary)
  /\ UNCHANGED << variant, mounted, mouse, win, sceneVars, boundary, uncaught, scrollY,
                  inView, frames, lastCrossed, domVars >>

\* The canvas content is committed: the refs of the scene are attached.
CommitScene ==
  /\ ChildrenMounted
  /\ ~refs.mesh
  /\ refs' = [ mesh |-> TRUE, material |-> TRUE, group |-> TRUE ]
  /\ UNCHANGED << variant, mounted, appVars, win, heap, mesh, material, morph, errVars,
                  pageVars, frames, lastEntered, domVars >>

----------------------------------------------------------------------------
(* Frame callbacks *)

\* Frame callbacks that would not look at their refs before they write.
UnguardedFrameBody(delta) ==
  /\ ChildrenMounted
  /\ CASE variant = "lens" ->
            LET target == LensTarget(heap, activeSection)
                cc == EasedConfig(heap[CurrentConfigRef], target, delta)
            IN  /\ heap' = [ heap EXCEPT ![CurrentConfigRef] = cc ]
                /\ material' = Assigned(material, AppliedMaterial(cc))
                /\ mesh' = LensMesh(mesh, cc, mouse, win, delta)
                /\ UNCHANGED morph
       [] variant = "morph" ->
            /\ morph' = MorphFrame(morph, heap, activeSection, mouse, win, delta)
            /\ UNCHANGED << heap, mesh, material >>
       [] OTHER ->
            /\ mesh' = VeroMesh(mesh, mouse)
            /\ UNCHANGED << heap, material, morph >>
  /\ UNCHANGED << variant, mounted, appVars, win, refs, errVars, pageVars, lastEntered,
                  domVars >>

\* The frame callback of the loaded variant, run with frame time delta
\* (milliseconds): app.jsx 149-182, app.jsx 660-691, vero.jsx 66-71.  Each
\* returns at once while its refs are not attached.
FrameBody(delta) ==
  /\ ChildrenMounted
  /\ CASE variant = "lens" ->
            IF ~refs.mesh \/ ~refs.material
            THEN UNCHANGED << heap, mesh, material, morph >>
            ELSE LET target == LensTarget(heap, activeSection)
                     cc == EasedConfig(heap[CurrentConfigRef], target, delta)
                 IN  /\ heap' = [ heap EXCEPT ![CurrentConfigRef] = cc ]
                     /\ material' = Assigned(material, AppliedMaterial(cc))
                     /\ mesh' = LensMesh(mesh, cc, mouse, win, delta)
                     /\ UNCHANGED morph
       [] variant = "morph" ->
            IF ~refs.group
            THEN UNCHANGED << heap, mesh, material, morph >>
            ELSE /\ morph' = MorphFrame(morph, heap, activeSection, mouse, win, delta)
                 /\ UNCHANGED << heap, mesh, material >>
       [] OTHER ->
            IF ~refs.mesh
            THEN UNCHANGED << heap, mesh, material, morph >>
            ELSE /\ mesh' = VeroMesh(mesh, mouse)
                 /\ UNCHANGED << heap, material, morph >>
  /\ UNCHANGED << variant, mounted, appVars, win, refs, errVars, pageVars, lastEntered,
                  domVars >>

\* A frame callback, counted against a bound on the number of frames.
Frame(delta, bound) ==
  /\ frames < bound
  /\ FrameBody(delta)
  /\ frames' = frames + 1

\* A frame callback of a render loop that never stops.
FreeFrame(delta) ==
  /\ FrameBody(delta)
  /\ UNCHANGED frames

----------------------------------------------------------------------------
(* Errors *)

\* An error with value v is raised at the given place below App.  A delivered
\* error makes React derive the boundary's state and render it again, which
\* unmounts the children (their refs detach, their observers disconnect, the
\* cleanup of Cursor runs); if that render throws, the root is unmounted and the
\* cleanup of App runs too.  Any other error leaves the program through the
\* host's uncaught-error path.
Raise(place, v) ==
  /\ ChildrenMounted
  /\ IF Delivered(place)
     THEN /\ boundary' = getDerivedStateFromError(v)
          /\ output' = Shown(getDerivedStateFromError(v))
          /\ mounted' = (render(getDerivedStateFromError(v)).kind # "throws")
          /\ refs' = [ mesh |-> FALSE, material |-> FALSE, group |-> FALSE ]
          /\ pending' = << >>
          /\ listeners' =
               IF render(getDerivedStateFromError(v)).kind = "throws"
               THEN AppCleanup(CursorCleanup(listeners))
               ELSE CursorCleanup(listeners)
          /\ UNCHANGED uncaught
     ELSE /\ uncaught' = TRUE
          /\ UNCHANGED << boundary, output, mounted, refs, pending, listeners >>
  /\ UNCHANGED << variant, appVars, win, heap, mesh, material, morph, scrollY, inView,
                  frames, lastEntered, lastCrossed, cursor >>

----------------------------------------------------------------------------
(* Specifications *)

\* The user follows the anchor of a navigation item: the host scrolls the
\* element whose id the href names to the top of the viewport, as far as the
\* page allows, and does not scroll if no element has that id.
FollowAnchor(item) ==
  /\ ChildrenMounted
  /\ pending = << >>
  /\ LET r == AnchorTarget(variant, item)
         y == IF r = "none" THEN scrollY ELSE Min(SectionTop(r, win), MaxScroll(win))
     IN  /\ scrollY' = y
         /\ Observe(y, win)
  /\ UNCHANGED << variant, mounted, appVars, win, sceneVars, errVars, frames,
                  lastEntered, domVars >>

\* The whole page with its scene and its errors, each event with a few inputs.
Next ==
  \/ \E e \in FewPointerEvents(win) : MouseMove(e)
  \/ \E y \in FewScrollStops(win) : Scroll(y)
  \/ \E w \in WindowSizes : Resize(w)
  \/ ViewportEnter
  \/ CommitScene
  \/ \E d \in FewDeltas : Frame(d, FewFrames)
  \/ \E place \in ErrorPlaces, v \in ErrorValues : Raise(place, v)

Spec == Init /\ [][Next]_vars

\* The page without its scene: every pointer event, scroll position and window.
PageNext ==
  \/ \E e \in PointerEvents(win) : MouseMove(e)
  \/ \E y \in ScrollStops(win) : Scroll(y)
  \/ \E w \in WindowSizes : Resize(w)
  \/ ViewportEnter

PageSpec == Init /\ [][PageNext]_vars

\* The page as its navigation bar is used: anchors followed, the window
\* resized, the pointer moved.
NavNext ==
  \/ \E item \in NavItems(variant) : FollowAnchor(item)
  \/ \E w \in WindowSizes : Resize(w)
  \/ \E e \in PointerEvents(win) : MouseMove(e)
  \/ ViewportEnter

NavSpec == Init /\ [][NavNext]_vars

\* The life of the window listeners: pointer events before and after the error
\* boundary takes the children down and before and after the page unmounts.
ListenerNext ==
  \/ \E e \in PointerEvents(win) : MouseMove(e)
  \/ \E t \in Targets : MouseOver(t)
  \/ \E place \in ErrorPlaces, v \in ErrorValues : Raise(place, v)
  \/ Unmount

ListenerSpec == Init /\ [][ListenerNext]_vars

\* The scene: every frame time, with the events that change what a frame reads.
SceneNext ==
  \/ CommitScene
  \/ \E d \in Deltas : Frame(d, MaxFrames)
  \/ \E y \in SceneScrollStops(win) : Scroll(y)
  \/ ViewportEnter
  \/ \E e \in FewPointerEvents(win) : MouseMove(e)

SceneSpec == Init /\ [][SceneNext]_vars

\* The frame times of LiveSpec, in milliseconds: the one whose blend factor
\* 2.5 * delta is exactly 1, and the one whose blend factor is exactly 2 (a
\* device that renders the scene at 1.25 frames per second).
LiveDeltas == {400, 800}

\* The largest magnitude of an eased field that LiveSpec explores, in units of
\* 1.0: a frame whose result lies beyond it is not followed.
MaxMagnitude == 6

\* The eased fields of a configuration record are within the explored range.
InRange(cc) == \A f \in NumFields : Abs(cc[f]) <= MaxMagnitude * Unit

\* The lens variant in the wide window, with a render loop that never stops:
\* frames keep running whatever else happens.
LiveInit == Init /\ variant = "lens" /\ win.innerWidth = 1000

LiveFrame(delta) ==
  /\ FreeFrame(delta)
  /\ InRange(heap'[CurrentConfigRef])

\* The scroll positions of LiveSpec: the hero in full view and the first Section
\* in full view.
LiveScrollStops(w) == { 0, SectionTop("work", w) }

LiveNext ==
  \/ CommitScene
  \/ \E d \in LiveDeltas : LiveFrame(d)
  \/ \E y \in LiveScrollStops(win) : Scroll(y)
  \/ ViewportEnter

LiveSpec ==
  /\ LiveInit
  /\ [][LiveNext]_vars
  /\ WF_vars(CommitScene)
  /\ WF_vars(\E d \in LiveDeltas : LiveFrame(d))

\* The frame times of SmoothSpec, in milliseconds: a 60 Hz frame, a 5 Hz frame,
\* and the longest frame whose blend factor 2.5 * delta is at most 1.
SmoothDeltas == {16, 200, 400}

\* Bound on the number of frame callbacks explored by SmoothSpec.
SmoothFrames == 3

\* The scroll positions of SmoothSpec: each of the four regions in full view.
SmoothScrollStops(w) == { SectionTop(r, w) : r \in Regions }

\* The lens variant in the wide window with a render loop that keeps its frame
\* rate: every frame time has a blend factor of at most 1.
SmoothNext ==
  \/ CommitScene
  \/ \E d \in SmoothDeltas : Frame(d, SmoothFrames)
  \/ \E y \in SmoothScrollStops(win) : Scroll(y)
  \/ ViewportEnter

SmoothSpec == LiveInit /\ [][SmoothNext]_vars

\* The frame time of RotationSpec, in milliseconds: a 60 Hz frame.
RotationDeltas == {16}

\* Bound on the number of frame callbacks explored by RotationSpec.
RotationFrames == 16

\* The lens variant in the wide window at a steady 60 Hz, with the pointer
\* events that a drag out of the window reports.
RotationNext ==
  \/ CommitScene
  \/ ViewportEnter
  \/ \E e \in FewPointerEvents(win) : MouseMove(e)
  \/ \E d \in RotationDeltas : Frame(d, RotationFrames)

RotationSpec == LiveInit /\ [][RotationNext]_vars

\* The mousemove events of a pointer that stays inside the window.
InsidePointerEvents(w) ==
  { e \in PointerEvents(w) : /\ 0 <= e.clientX /\ e.clientX < w.innerWidth
                             /\ 0 <= e.clientY /\ e.clientY < w.innerHeight }

\* Bound on the number of frame callbacks explored by VeroSpec.
VeroFrames == 8

\* The vero.jsx variant with its pointer inside the window.
VeroInit == Init /\ variant = "vero"

VeroNext ==
  \/ CommitScene
  \/ \E e \in InsidePointerEvents(win) : MouseMove(e)
  \/ \E d \in FewDeltas : Frame(d, VeroFrames)

VeroSpec == VeroInit /\ [][VeroNext]_vars

\* The frame times of MorphSmoothSpec, in milliseconds: an 8 Hz frame, and the
\* longest frame whose blend factor delta * 4 is at most 1.
MorphSmoothDeltas == {125, 250}

\* Bound on the number of frame callbacks explored by MorphSmoothSpec.
MorphFrames == 2

\* The morphing variant, in either window.
MorphInit == Init /\ variant = "morph"

\* The morphing variant with a render loop that keeps its frame rate, while the
\* page is scrolled and the window resized.
MorphSmoothNext ==
  \/ CommitScene
  \/ ViewportEnter
  \/ \E y \in SmoothScrollStops(win) : Scroll(y)
  \/ \E w \in WindowSizes : Resize(w)
  \/ \E d \in MorphSmoothDeltas : Frame(d, MorphFrames)

MorphSmoothSpec == MorphInit /\ [][MorphSmoothNext]_vars

\* The frame time of MorphLiveSpec, in milliseconds: the one whose blend factor
\* delta * 4 is exactly 2 (a device that renders the scene at 2 frames per
\* second).
MorphLiveDeltas == {500}

\* A full turn, 2 pi.
Turn == Real(6283, 1000)

\* The morphing variant's objects with every Euler angle taken modulo a full
\* turn, which leaves their orientation as it is.
Turned(m) ==
  [ group  |-> [ m.group EXCEPT !.rx = @ % Turn, !.ry = @ % Turn ],
    shapes |-> [ s \in Shapes |->
                   [ m.shapes[s] EXCEPT !.rx = @ % Turn, !.ry = @ % Turn ] ] ]

\* The morphing variant in the wide window, with a render loop that never stops.
MorphLiveInit == Init /\ variant = "morph" /\ win.innerWidth = 1000

\* A frame callback of that loop (app.jsx 660-691).
MorphLiveFrame(delta) ==
  /\ ChildrenMounted
  /\ variant = "morph"
  /\ IF refs.group
     THEN morph' = Turned(MorphFrame(morph, heap, activeSection, mouse, win, delta))
     ELSE UNCHANGED morph
  /\ UNCHANGED << variant, mounted, appVars, win, heap, refs, mesh, material, errVars,
                  pageVars, frames, lastEntered, domVars >>

MorphLiveNext ==
  \/ CommitScene
  \/ ViewportEnter
  \/ \E d \in MorphLiveDeltas : MorphLiveFrame(d)

MorphLiveSpec ==
  /\ MorphLiveInit
  /\ [][MorphLiveNext]_vars
  /\ WF_vars(CommitScene)
  /\ WF_vars(ViewportEnter)
  /\ WF_vars(\E d \in MorphLiveDeltas : MorphLiveFrame(d))

----------------------------------------------------------------------------
(* Claims *)

\* currentConfig.current of the lens variant.
currentConfig == heap[CurrentConfigRef]

\* The easing tolerance: one hundredth.
Tolerance == Real(1, 100)

\* Every eased field of currentConfig is within the tolerance of section S's
\* configured value.
Settled(S) ==
  \A f \in NumFields : Abs(currentConfig[f] - SECTION_CONFIGS_LENS[S][f]) <= Tolerance

\* C1: for every section S, if activeSection becomes S and stays S while frame
\* callbacks keep running, then eventually every eased field of the lens is
\* within the tolerance of S's configured value and remains within it.
C1_EventuallySettled ==
  \A S \in Sections : <>[](activeSection = S) => <>[]Settled(S)

\* x lies between a and b, ends included.
Between(a, x, b) == (a <= x /\ x <= b) \/ (b <= x /\ x <= a)

\* The step is a frame callback of the lens variant that ran past its guard.
LensFrameStep == frames' # frames /\ variant = "lens" /\ refs.mesh /\ refs.material

\* C2: in every frame of the lens, whatever the frame time, each eased field
\* ends between its previous value and its target: it moves toward the target
\* by at most the remaining distance and never overshoots it.
C2_NoOvershoot ==
  [][ LensFrameStep =>
        \A f \in NumFields :
          Between(currentConfig[f], currentConfig'[f],
                  LensTarget(heap, activeSection)[f]) ]_vars

\* C3: in all three variants, after any sequence of pointer-move events in any
\* window, both coordinates of the stored pointer state are within [-1, 1].
C3_MouseNormalized ==
  /\ -Unit <= mouse.x /\ mouse.x <= Unit
  /\ -Unit <= mouse.y /\ mouse.y <= Unit

\* new is x moved toward target t by the fraction 2.5 * delta of the remaining
\* distance (delta in milliseconds), to the nearest representable value.
IsEasingStep(x, t, delta, new) ==
  2 * Abs(new * FactorDen - (x * FactorDen + (t - x) * 25 * delta)) <= FactorDen

\* C4: a change of activeSection leaves every eased field as it is, and the
\* frame that follows (like every frame) moves each field from the value it had
\* before the frame by the ordinary easing step toward the current target:
\* nothing is reset or set directly to the new target.
C4_RetargetWithoutSnap ==
  [][ /\ (variant = "lens" /\ activeSection' # activeSection) =>
           currentConfig' = currentConfig
      /\ \A d \in Deltas :
           (Frame(d, MaxFrames) /\ LensFrameStep) =>
             \A f \in NumFields :
               IsEasingStep(currentConfig[f], LensTarget(heap, activeSection)[f], d,
                            currentConfig'[f])
    ]_vars

\* C4 witness: the lens was eased one frame toward work, activeSection went back
\* to hero before the vector reached work's values, and the next frame moved the
\* vector from where it was toward hero, short of hero's values.
C4_SwitchedMidway ==
  /\ variant = "lens" /\ activeSection = "hero" /\ lastEntered = "hero" /\ frames = 2
  /\ \E d1 \in Deltas, d2 \in Deltas :
       LET hero == SECTION_CONFIGS_LENS["hero"]
           work == SECTION_CONFIGS_LENS["work"]
           mid  == EasedConfig(hero, work, d1)
       IN  /\ \A f \in NumFields : mid[f] # work[f]
           /\ currentConfig = EasedConfig(mid, hero, d2)
           /\ \A f \in NumFields : currentConfig[f] # hero[f] /\ currentConfig[f] # mid[f]

\* C5: whenever an error value has been delivered to the boundary, whatever the
\* value, what the boundary shows is the fallback block: not the children and
\* not an empty page.
C5_FallbackForEveryError == boundary.hasError => output.kind = "fallback"

\* The step raises an error somewhere below App.
RaiseStep == \E place \in ErrorPlaces, v \in ErrorValues : Raise(place, v)

\* C6: every error raised below App, at whatever place (scene construction,
\* rendering, a frame callback, an event handler), reaches the boundary, and the
\* whole output becomes the fallback message.
C6_EveryErrorReachesBoundary ==
  [][ RaiseStep => boundary'.hasError /\ output'.kind = "fallback" ]_vars

\* C6 as the code has it: an error raised while the tree under the boundary is
\* constructed or rendered reaches the boundary, which stores the value and
\* stops showing its children; an error raised inside a frame callback or an
\* event handler does not reach it and leaves its state and the output as they
\* were.
C6_OnlyRenderErrorsReachBoundary ==
  [][ \A place \in ErrorPlaces, v \in ErrorValues :
        Raise(place, v) =>
          IF place \in {"construct", "render"}
          THEN /\ boundary' = [ hasError |-> TRUE, error |-> v ]
               /\ output'.kind # "children"
          ELSE /\ boundary' = boundary
               /\ output' = output
               /\ uncaught' ]_vars

\* C6 witness: an error was raised in a frame callback or an event handler and
\* the page still shows the children.
C6_HandlerErrorNotCaught ==
  uncaught /\ ~boundary.hasError /\ output.kind = "children"

\* C7: once hasError is true no step sets it back to false, and whenever it is
\* true after a step the page shows the fallback message, never the children.
C7_ErrorStateAbsorbing ==
  [][ /\ boundary.hasError => boundary'.hasError
      /\ boundary'.hasError => output'.kind = "fallback" ]_vars

\* C8: activeSection starts as 'hero'; each delivered viewport-enter
\* notification sets it to the notifying region at once, and no other step
\* (scrolling a region out of view included) changes it.
C8_LastNotificationWins ==
  /\ variant # "vero" => activeSection = "hero"
  /\ [][ IF ViewportEnter THEN activeSection' = Head(pending)
                            ELSE activeSection' = activeSection ]_vars

\* C8 witness: the region whose notification came last is active although its
\* element has since been scrolled out of view and no other region is in view.
C8_ActiveRegionLeft ==
  /\ pending = << >> /\ activeSection = "work" /\ lastEntered = "work"
  /\ \A r \in Regions : ~inView[r]

\* Region r occupies more than half of the viewport.
Majority(r) == 2 * Occupies(r, scrollY, win) > win.innerHeight

\* C9: once the notifications of a scroll position are delivered, a region that
\* occupies the majority of the viewport is the active one.
C9_MajorityRegionActive ==
  (variant # "vero" /\ pending = << >>) =>
    \A r \in Regions : Majority(r) => activeSection = r

\* C9 as the code has it: once the notifications are delivered, activeSection
\* is the region whose observed element most recently rose to its visibility
\* threshold, and a region becomes active only while its element is visible to
\* that threshold.
C9_LastCrossedActive ==
  /\ [](variant # "vero" /\ pending = << >> => activeSection = lastCrossed)
  /\ [][ activeSection' # activeSection =>
            InViewAt(activeSection', scrollY', win') ]_vars

\* C9 witness: the hero occupies the majority of the viewport while work, whose
\* element rose to its threshold last, is active.
C9_MajorityNotActive ==
  pending = << >> /\ Majority("hero") /\ activeSection = "work" /\ lastCrossed = "work"

\* C10: after any sequence of operations every record of SECTION_CONFIGS equals
\* its initial value.
C10_ConfigsNeverChange ==
  variant # "vero" => \A s \in Sections : heap[s] = InitialHeap(variant)[s]

\* C10 witness: frames have moved the lens's current vector away from the hero
\* record's values.
C10_VectorMoved ==
  /\ variant = "lens" /\ frames > 0
  /\ \A f \in NumFields : currentConfig[f] # SECTION_CONFIGS_LENS["hero"][f]

\* The step is a frame callback of the morphing variant that ran past its guard.
MorphFrameStep == frames' # frames /\ variant = "morph" /\ refs.group

\* The natural sizes of the four primitives, in tenths.
ClaimedSize == [ knot |-> 30, prism |-> 35, capsule |-> 25, orb |-> 25 ]

\* The scale target of primitive s while section a is active in window w: its
\* natural size times the mobile ratio for the shape configured for a, else 0.
ClaimedTarget(s, a, w) ==
  IF heap[a].shape = s
  THEN Round(ClaimedSize[s] * Unit * (IF ViewportWidth(w) < 7 * Unit THEN 6 ELSE 10), 100)
  ELSE 0

\* new is x moved toward t by the fraction 4 * delta of the remaining distance
\* (delta in milliseconds), to the nearest representable value.
IsScaleStep(x, t, delta, new) ==
  2 * Abs((new - x) * 1000 - (t - x) * 4 * delta) <= 1000

\* C11: in the morphing variant all four primitives exist in every state, the
\* shape configured for activeSection is exactly one of them, and every frame
\* eases that one's scale toward its natural size times the mobile ratio and the
\* scale of each of the other three toward 0.
C11_OneShapeTargeted ==
  /\ [](variant = "morph" =>
          /\ DOMAIN morph.shapes = {"knot", "prism", "capsule", "orb"}
          /\ Cardinality({ s \in DOMAIN morph.shapes : heap[activeSection].shape = s }) = 1)
  /\ [][ \A d \in Deltas :
           (Frame(d, MaxFrames) /\ MorphFrameStep) =>
             \A s \in {"knot", "prism", "capsule", "orb"} :
               IsScaleStep(morph.shapes[s].scale, ClaimedTarget(s, activeSection, win), d,
                           morph'.shapes[s].scale) ]_vars

\* C11 witness: after a frame with work active the prism has grown from the
\* default scale and the other three primitives have shrunk.
C11_PrismGrowsOthersShrink ==
  /\ variant = "morph" /\ frames > 0 /\ activeSection = "work"
  /\ morph.shapes["prism"].scale > Unit
  /\ \A s \in Shapes \ {"prism"} : morph.shapes[s].scale < Unit

\* C12: after every completed frame callback of the lens the current vector's
\* color is the configured color of the section active in that frame, whatever
\* the color before the frame and whatever the frame time.
C12_ColorAssigned ==
  [][ LensFrameStep =>
        currentConfig'.color = SECTION_CONFIGS_LENS[activeSection].color ]_vars

\* C12 witness: one frame with agency active has replaced the hero's color by
\* agency's while the eased fields are still short of agency's values.
C12_ColorSwapped ==
  /\ variant = "lens" /\ frames = 1 /\ activeSection = "agency"
  /\ currentConfig.color = "#C67C4E"
  /\ currentConfig.color # SECTION_CONFIGS_LENS["hero"].color
  /\ \A f \in NumFields : currentConfig[f] # SECTION_CONFIGS_LENS["agency"][f]

\* The pointer readings App can hold: the initial one and those of the events.
PointerReadings ==
  { [ x |-> 0, y |-> 0 ] } \cup
  UNION { { updateMouse(e, w) : e \in PointerEvents(w) } : w \in WindowSizes }

\* C13: however pointer moves, viewport-enter notifications and frames
\* interleave, each frame of the lens is of one piece: there is one single
\* section toward whose configuration the color and all five numeric fields
\* moved, and one single pointer reading that both rotation axes used.
C13_FrameOfOnePiece ==
  [][ \A d \in Deltas :
        (Frame(d, MaxFrames) /\ LensFrameStep) =>
          /\ \E S \in Sections :
               /\ currentConfig'.color = SECTION_CONFIGS_LENS[S].color
               /\ \A f \in NumFields :
                    IsEasingStep(currentConfig[f], SECTION_CONFIGS_LENS[S][f], d,
                                 currentConfig'[f])
          /\ \E m \in PointerReadings :
               /\ mesh'.rx = LensAxis(mesh.rx, 2, currentConfig'.speed, m.y, d)
               /\ mesh'.ry = LensAxis(mesh.ry, 3, currentConfig'.speed, m.x, d) ]_vars

\* C13 witness: a frame ran after the pointer had moved and work had become
\* active, and used both.
C13_FrameAfterMoveAndEnter ==
  /\ variant = "lens" /\ frames = 1 /\ activeSection = "work"
  /\ mouse.x # 0 /\ mouse.y # 0
  /\ \E d \in Deltas :
       /\ currentConfig = EasedConfig(SECTION_CONFIGS_LENS["hero"],
                                      SECTION_CONFIGS_LENS["work"], d)
       /\ mesh.rx = LensAxis(0, 2, currentConfig.speed, mouse.y, d)
       /\ mesh.ry = LensAxis(0, 3, currentConfig.speed, mouse.x, d)
       /\ mesh.rx # LensAxis(0, 2, currentConfig.speed, 0, d)

\* C14: once the page is unmounted every window listener registered on mount
\* is off and was removed exactly once (none is ever removed twice), and no
\* pointer event delivered afterwards changes mouse, mousePosition or isHovered.
C14_ListenersRemovedOnUnmount ==
  /\ [](\A l \in {"updateMouse", "mouseMove", "handleMouseOver"} :
          /\ listeners[l].removed <= 1
          /\ ~mounted => (~listeners[l].on /\ listeners[l].removed = 1))
  /\ [][ ~mounted => (mouse' = mouse /\ cursor' = cursor) ]_vars

\* C14 witness: the page is unmounted after the pointer had moved and hovered a
\* button, and the error boundary had not taken the children down before.
C14_UnmountedAfterPointerUse ==
  /\ ~mounted /\ ~boundary.hasError
  /\ mouse.x # 0 /\ cursor.x # 0 /\ cursor.isHovered
  /\ \A l \in DOMAIN listeners : listeners[l].removed = 1

\* The step delivers a pointer move or a viewport-enter notification.
PointerOrEnterStep == (\E e \in PointerEvents(win) : MouseMove(e)) \/ ViewportEnter

\* C15: in the lens variant a pointer move or a viewport-enter notification
\* leaves the current vector, the mesh rotation and the mesh scale as they are;
\* they change in frame callbacks only.
C15_OnlyFramesWriteVector ==
  [][ variant = "lens" =>
        /\ PointerOrEnterStep => (currentConfig' = currentConfig /\ mesh' = mesh)
        /\ (currentConfig' # currentConfig \/ mesh' # mesh) => LensFrameStep ]_vars

\* C15 witness: a frame ran with work active and the pointer at rest; since then
\* agency has become active and the pointer has moved, and the vector and the
\* rotation are still as that frame left them.
C15_VectorKeptAfterEvents ==
  /\ variant = "lens" /\ frames = 1
  /\ activeSection = "agency" /\ mouse.x # 0 /\ mouse.y # 0
  /\ \E d \in Deltas :
       /\ currentConfig = EasedConfig(SECTION_CONFIGS_LENS["hero"],
                                      SECTION_CONFIGS_LENS["work"], d)
       /\ mesh = LensMesh([ scale |-> Unit, rx |-> 0, ry |-> 0 ], currentConfig,
                          [ x |-> 0, y |-> 0 ], win, d)

\* C16: in each frame of the lens with frame time delta every one of the five
\* numeric fields becomes old + (target - old) * 2.5 * delta, target being the
\* field of the active section's configuration: none is skipped, none is eased
\* at another rate, and the vector has no other numeric field.
C16_EveryFieldEasedAlike ==
  [][ \A d \in Deltas :
        (Frame(d, MaxFrames) /\ LensFrameStep) =>
          /\ DOMAIN currentConfig' =
               {"color", "distortion", "chromaticAberration", "roughness", "scale", "speed"}
          /\ \A f \in {"distortion", "chromaticAberration", "roughness", "scale", "speed"} :
               IsEasingStep(currentConfig[f], SECTION_CONFIGS_LENS[activeSection][f], d,
                            currentConfig'[f]) ]_vars

\* C16 witness: one frame with agency active has moved every numeric field away
\* from the hero's value by the easing step.
C16_AllFieldsMoved ==
  /\ variant = "lens" /\ frames = 1 /\ activeSection = "agency"
  /\ \E d \in Deltas :
       \A f \in NumFields :
         /\ currentConfig[f] # SECTION_CONFIGS_LENS["hero"][f]
         /\ IsEasingStep(SECTION_CONFIGS_LENS["hero"][f], SECTION_CONFIGS_LENS["agency"][f],
                         d, currentConfig[f])

\* new is angle advanced by delta * rate * speed (rate in tenths, delta in
\* milliseconds) and then moved one tenth of the way toward pointer * 0.5, to
\* within one representable value.
IsRotationStep(angle, rateTenths, speed, pointer, delta, new) ==
  Abs(100000 * new - (90000 * angle + 9 * delta * rateTenths * speed + 5000 * pointer))
    <= 100000

\* C17: in each frame of the lens the rotation about x advances by
\* delta * 0.2 * speed and the rotation about y by delta * 0.3 * speed, speed
\* being the value eased in this same frame, and each is then moved one tenth of
\* the way toward mouse.y * 0.5 (x axis) and mouse.x * 0.5 (y axis); nothing else
\* of the vector enters.
C17_RotationStep ==
  [][ \A d \in Deltas :
        (Frame(d, MaxFrames) /\ LensFrameStep) =>
          /\ IsRotationStep(mesh.rx, 2, currentConfig'.speed, mouse.y, d, mesh'.rx)
          /\ IsRotationStep(mesh.ry, 3, currentConfig'.speed, mouse.x, d, mesh'.ry) ]_vars

\* C17 witness: the first frame ran with work active after the pointer had
\* moved; the rotation it left fits the speed eased in that frame and does not
\* fit the speed from before the frame.
C17_RotatedWithEasedSpeed ==
  /\ variant = "lens" /\ frames = 1 /\ activeSection = "work"
  /\ mouse.x # 0 /\ mouse.y # 0
  /\ currentConfig.speed # SECTION_CONFIGS_LENS["hero"].speed
  /\ \E d \in Deltas :
       /\ IsRotationStep(0, 2, currentConfig.speed, mouse.y, d, mesh.rx)
       /\ IsRotationStep(0, 3, currentConfig.speed, mouse.x, d, mesh.ry)
       /\ ~IsRotationStep(0, 2, SECTION_CONFIGS_LENS["hero"].speed, mouse.y, d, mesh.rx)

\* The step completes a frame callback of the lens and the displayed object
\* shows the vector: the four material fields equal the vector's and the mesh
\* scale is the vector's scale times 0.6 below viewport width 7, times 1 else.
ShowsVector ==
  /\ material'.distortion = currentConfig'.distortion
  /\ material'.chromaticAberration = currentConfig'.chromaticAberration
  /\ material'.roughness = currentConfig'.roughness
  /\ material'.color = currentConfig'.color
  /\ mesh'.scale = Round(currentConfig'.scale *
                           (IF ViewportWidth(win) < 7 * Unit THEN 6 ELSE 10), 10)

\* C18: after every completed frame callback of the lens the displayed object
\* reflects the current vector in distortion, chromaticAberration, roughness,
\* color and scale, and the material's refraction value is the vector's as well.
C18_ObjectReflectsVector ==
  [][ LensFrameStep =>
        /\ ShowsVector
        /\ "ior" \in DOMAIN currentConfig'
        /\ material'.ior = currentConfig'["ior"] ]_vars

\* C18 as the code has it: the four material fields and the scale reflect the
\* vector; the vector has no refraction field, and the material's refraction
\* value is never written: it stays at its prop, 1.5.
C18_ObjectReflectsVectorButIor ==
  [][ LensFrameStep =>
        /\ ShowsVector
        /\ "ior" \notin DOMAIN currentConfig'
        /\ material'.ior = material.ior
        /\ material'.ior = Real(15, 10) ]_vars

\* C18 witness: a frame with agency active has put agency's color and the eased
\* fields on the material and the scaled size on the mesh, and the refraction
\* value is the one of the prop.
C18_MaterialFollowsVector ==
  /\ variant = "lens" /\ frames > 0 /\ activeSection = "agency"
  /\ material.color = "#C67C4E"
  /\ material.distortion = currentConfig.distortion
  /\ material.distortion # SECTION_CONFIGS_LENS["hero"].distortion
  /\ mesh.scale # Unit
  /\ material.ior = Real(15, 10)

\* The section named by the viewport-enter notification delivered last, 'hero'
\* before the first.
LatestSection == IF lastEntered = "none" THEN "hero" ELSE lastEntered

\* C19: every frame of the lens eases toward the configuration of the section
\* that the last delivered viewport-enter notification named: once a
\* notification has set activeSection to S no frame uses the target of the
\* section active before.
C19_FramesUseLatestSection ==
  [][ \A d \in Deltas :
        (Frame(d, MaxFrames) /\ LensFrameStep) =>
          /\ currentConfig'.color = SECTION_CONFIGS_LENS[LatestSection].color
          /\ \A f \in NumFields :
               IsEasingStep(currentConfig[f], SECTION_CONFIGS_LENS[LatestSection][f], d,
                            currentConfig'[f]) ]_vars

\* C19 witness: a frame eased toward work, then agency entered, and the next
\* frame eased from there toward agency.
C19_RetargetedToAgency ==
  /\ variant = "lens" /\ frames = 2 /\ lastEntered = "agency"
  /\ \E d1 \in Deltas, d2 \in Deltas :
       LET mid == EasedConfig(SECTION_CONFIGS_LENS["hero"], SECTION_CONFIGS_LENS["work"], d1)
       IN  /\ currentConfig = EasedConfig(mid, SECTION_CONFIGS_LENS["agency"], d2)
           /\ currentConfig # EasedConfig(mid, SECTION_CONFIGS_LENS["work"], d2)
           /\ mid # SECTION_CONFIGS_LENS["hero"]

\* Every primitive's scale is within the tolerance of its target for section S:
\* the natural size (times the mobile ratio) of the shape configured for S, 0
\* for the other three.
MorphSettled(S) ==
  \A s \in Shapes :
    Abs(morph.shapes[s].scale - TargetScale(s, heap, S, win)) <= Tolerance

\* C20: in the morphing variant, if activeSection stays S while frames keep
\* running, then eventually the primitive configured for S has its natural size
\* and the other three have scale 0, each within the tolerance, and stay so.
C20_MorphEventuallySettled ==
  \A S \in Sections : <>[](activeSection = S) => <>[]MorphSettled(S)

\* C21: in both app.jsx variants activeSection is always one of the four keys
\* of SECTION_CONFIGS, so the lookups of the frame callbacks find the record of
\* activeSection itself and their fallbacks (the hero record, the knot) are
\* never taken.
C21_ActiveSectionConfigured ==
  variant \in {"lens", "morph"} =>
    /\ activeSection \in Sections
    /\ activeSection \in DOMAIN heap
    /\ variant = "lens" => LensTarget(heap, activeSection) = heap[activeSection]
    /\ variant = "morph" => currentShape(heap, activeSection) = heap[activeSection].shape

\* C21 witness: the last Section has reported itself and is the active one,
\* after another Section was.
C21_ContactActive ==
  /\ variant \in {"lens", "morph"}
  /\ activeSection = "contact" /\ lastEntered = "contact"
  /\ scrollY > SectionTop("agency", win)

\* C22: the target is a fixed point of the easing step.  A frame of the lens
\* that starts with every numeric field of the vector equal to the value
\* configured for activeSection leaves the five fields as they are, whatever its
\* frame time (this holds for each of the four configurations); and until the
\* first viewport-enter notification is delivered the vector equals the hero
\* configuration.
C22_TargetIsFixedPoint ==
  [][ /\ \A S \in Sections, d \in Deltas :
           EasedConfig(SECTION_CONFIGS_LENS[S], SECTION_CONFIGS_LENS[S], d)
             = SECTION_CONFIGS_LENS[S]
      /\ \A d \in Deltas :
           ( /\ Frame(d, MaxFrames) /\ LensFrameStep
             /\ \A f \in NumFields :
                  currentConfig[f] = LensTarget(heap, activeSection)[f] )
           => \A f \in NumFields : currentConfig'[f] = currentConfig[f]
      /\ (variant = "lens" /\ lastEntered' = "none")
           => currentConfig' = SECTION_CONFIGS_LENS["hero"] ]_vars

\* C22 witness: two frames have run and applied the vector to the material
\* before any notification was delivered, and the vector is the hero
\* configuration still.
C22_HeldAtHero ==
  /\ variant = "lens" /\ frames = 2 /\ lastEntered = "none" /\ activeSection = "hero"
  /\ currentConfig = SECTION_CONFIGS_LENS["hero"]
  /\ material.distortion = SECTION_CONFIGS_LENS["hero"].distortion
  /\ mesh.scale # Real(1, 1)

\* The range the four configurations span for each eased field
\* (app.jsx 18-51): distortion in [0, 1.5], chromaticAberration in [0.1, 1.5],
\* roughness in [0, 0.2], scale in [2.0, 4.5], speed in [0.2, 3.0].
ClaimedRange ==
  [ distortion          |-> [ lo |-> Real(0, 1),  hi |-> Real(15, 10) ],
    chromaticAberration |-> [ lo |-> Real(1, 10), hi |-> Real(15, 10) ],
    roughness           |-> [ lo |-> Real(0, 1),  hi |-> Real(2, 10) ],
    scale               |-> [ lo |-> Real(2, 1),  hi |-> Real(45, 10) ],
    speed               |-> [ lo |-> Real(2, 10), hi |-> Real(3, 1) ] ]

\* C23: while every frame time satisfies 2.5 * delta <= 1, each eased field of
\* the lens's vector stays within the range spanned by the four configured
\* values of that field, whatever frames and section changes have happened; the
\* ranges are those of ClaimedRange, so roughness and scale are never negative.
C23_FieldsWithinConfiguredRange ==
  /\ \A f \in NumFields :
       /\ \A S \in Sections : Between(ClaimedRange[f].lo, SECTION_CONFIGS_LENS[S][f],
                                      ClaimedRange[f].hi)
       /\ \E S \in Sections : SECTION_CONFIGS_LENS[S][f] = ClaimedRange[f].lo
       /\ \E S \in Sections : SECTION_CONFIGS_LENS[S][f] = ClaimedRange[f].hi
       /\ Between(ClaimedRange[f].lo, currentConfig[f], ClaimedRange[f].hi)
  /\ currentConfig.roughness >= 0 /\ currentConfig.scale >= 0

\* C23 witness: every frame time of the specification has a blend factor of at
\* most 1, one of them exactly 1, and frames have carried the vector from the
\* hero configuration to the lowest configured scale, that of contact.
C23_ReachedLowestScale ==
  /\ \A d \in SmoothDeltas : lerpFactor(d) <= FactorDen
  /\ \E d \in SmoothDeltas : lerpFactor(d) = FactorDen
  /\ frames = SmoothFrames /\ activeSection = "contact"
  /\ currentConfig.scale = ClaimedRange["scale"].lo
  /\ currentConfig.roughness > ClaimedRange["roughness"].lo
  /\ currentConfig.roughness < ClaimedRange["roughness"].hi

\* The largest frame time of RotationSpec, D, in milliseconds.
LongestRotationDelta == CHOOSE d \in RotationDeltas : \A e \in RotationDeltas : e <= d

\* The bound V on the eased speed: the largest configured speed.
SpeedBound == ClaimedRange["speed"].hi

\* |angle| <= 0.5 + 9 * D * rate * V, with rate = rateTenths / 10, D in
\* milliseconds and V in units of 1 / Unit.
WithinRotationBound(angle, rateTenths) ==
  10000 * Abs(angle) <= 5000 * Unit + 9 * LongestRotationDelta * rateTenths * SpeedBound

\* C24: in the lens variant, with every frame time at most D and the eased
\* speed at most V in magnitude, after any number of frames
\* |rotation.x| <= 0.5 + 9 * D * 0.2 * V and |rotation.y| <= 0.5 + 9 * D * 0.3 * V.
C24_RotationBounded ==
  (variant = "lens" /\ Abs(currentConfig.speed) <= SpeedBound) =>
    /\ WithinRotationBound(mesh.rx, 2)
    /\ WithinRotationBound(mesh.ry, 3)

\* The step is a frame callback of the vero.jsx variant that ran past its guard.
VeroFrameStep == frames' # frames /\ variant = "vero" /\ refs.mesh

\* new - pointer * 0.5 = 0.9 * (angle - pointer * 0.5), to within the rounding
\* of the last digit of new and of pointer * 0.5.
IsContraction(angle, pointer, new) == Abs(20 * new - 18 * angle - pointer) <= 11

\* |angle| <= 0.5, to within the rounding of the last digit.
WithinHalf(angle) == 2 * Abs(angle) <= Unit + 1

\* C25: in the vero.jsx variant, from rotation 0 and with the pointer
\* coordinates in [-1, 1], rotation.x and rotation.y stay within [-0.5, 0.5]
\* after any sequence of frames and pointer moves, and every frame multiplies
\* the distance of each angle to the pointer's offset (mouse.y * 0.5 for x,
\* mouse.x * 0.5 for y) by 0.9.
C25_VeroRotationContracts ==
  [][ /\ (variant = "vero" /\ Abs(mouse'.x) <= Unit /\ Abs(mouse'.y) <= Unit)
           => WithinHalf(mesh'.rx) /\ WithinHalf(mesh'.ry)
      /\ VeroFrameStep
           => /\ IsContraction(mesh.rx, mouse.y, mesh'.rx)
              /\ IsContraction(mesh.ry, mouse.x, mesh'.ry) ]_vars

\* C25 witness: the pointer is in the window's top left corner, (-1, 1), and
\* frames have carried rotation.x more than half of the way to 0.5 and
\* rotation.y more than half of the way to -0.5.
C25_TurnedTowardCorner ==
  /\ variant = "vero" /\ frames = VeroFrames
  /\ mouse = [ x |-> -Unit, y |-> Unit ]
  /\ 4 * mesh.rx > Unit /\ WithinHalf(mesh.rx)
  /\ 4 * mesh.ry < -Unit /\ WithinHalf(mesh.ry)

\* The refs that the frame callback of the loaded variant tests are not all
\* attached: mesh.current or materialRef.current (app.jsx 150), group.current
\* (app.jsx 661), mesh.current (vero.jsx 67).
RefsUnattached ==
  CASE variant = "lens"  -> ~refs.mesh \/ ~refs.material
    [] variant = "morph" -> ~refs.group
    [] OTHER             -> ~refs.mesh

\* C26: a frame callback that runs while the refs it tests are not all attached
\* changes nothing: the current vector, the rotation, the scale, the material
\* and the morphing variant's objects are left as they were.
C26_UnattachedFrameChangesNothing ==
  [][ \A d \in Deltas :
        (Frame(d, MaxFrames) /\ RefsUnattached) =>
          /\ frames' = frames + 1
          /\ UNCHANGED << heap, mesh, material, morph >> ]_vars

\* C26 witness: frames have run before the scene was committed, with the
\* pointer off the centre and another section active, and every object of the
\* scene is as it was at load.
C26_FramesBeforeCommit ==
  /\ mounted /\ frames = MaxFrames /\ RefsUnattached
  /\ mouse # [ x |-> 0, y |-> 0 ] /\ activeSection = "work"
  /\ heap = InitialHeap(variant)
  /\ mesh.rx = 0 /\ mesh.ry = 0
  /\ material = InitialMaterial
  /\ morph = InitialMorph

\* C27: in the morphing variant, while every frame time satisfies
\* 4 * delta <= 1, no primitive's scale is ever negative, a frame never
\* increases the scale of a primitive that is not the active one, and a frame
\* never takes the scale of the active primitive above the larger of the scale
\* it had before the frame and its scale target, which is its natural size
\* (3, 3.5, 2.5, 2.5) times the mobile ratio and so at most its natural size;
\* nothing but a frame changes a scale.  Hence the active primitive's scale
\* never exceeds the larger of its natural size and its scale at the moment it
\* became active.
C27_ScalesMonotone ==
  [][ /\ \A s \in Shapes : morph'.shapes[s].scale >= 0
      /\ (frames' = frames) => morph' = morph
      /\ (MorphFrameStep /\ frames' # frames) =>
           \A s \in Shapes :
             IF currentShape(heap, activeSection) = s
             THEN /\ morph'.shapes[s].scale
                       <= Max(morph.shapes[s].scale,
                              TargetScale(s, heap, activeSection, win))
                  /\ TargetScale(s, heap, activeSection, win)
                       <= Real(NaturalSize(s), 10)
             ELSE morph'.shapes[s].scale <= morph.shapes[s].scale ]_vars

\* C27 witness: every frame time of the specification has a blend factor of at
\* most 1, one of them exactly 1; on the phone the prism is active and has
\* grown to its target, 0.6 of its natural size, and the knot has shrunk to 0.
C27_PrismGrownKnotGone ==
  /\ \A d \in MorphSmoothDeltas : 4 * d <= 1000
  /\ \E d \in MorphSmoothDeltas : 4 * d = 1000
  /\ variant = "morph" /\ frames = MorphFrames /\ activeSection = "work"
  /\ viewportRatio(win) = 6
  /\ morph.shapes["prism"].scale = TargetScale("prism", heap, activeSection, win)
  /\ morph.shapes["prism"].scale > Real(1, 1)
  /\ morph.shapes["prism"].scale < Real(NaturalSize("prism"), 10)
  /\ morph.shapes["knot"].scale = 0

\* C28: in each page variant every in-page anchor of the navigation bar
\* targets the id of a section that exists on that page: the lower-cased names
\* of the navigation items are all among the ids of the sections App renders.
C28_AnchorsTargetSections ==
  ChildrenMounted =>
    \A item \in NavItems(variant) :
      \E r \in DOMAIN SectionIds(variant) : SectionIds(variant)[r] = toLowerCase(item)

====
